---------------------------- MODULE Spec2Model ----------------------------
(***************************************************************************)
(* Model of tools/run_danesfield.py: the orchestrator of the Danesfield    *)
(* pipeline.  It covers create_working_dir, the construction of the        *)
(* collection catalog (prefix extraction, classify_fpaths,                 *)
(* ensure_complete_modality), the fixed sequence of stage invocations of   *)
(* main, and the glob filters that select the meshes handed to             *)
(* texture_mapping and buildings_to_dsm.                                   *)
(*                                                                         *)
(* Strings are sequences of tokens.  Directory paths are spelled character *)
(* by character ("/", "a", "b", ...), so that Python's substring test      *)
(* `x in y` and str.find are computed as what they are: a search for a     *)
(* contiguous run of characters.  Imagery paths use longer tokens: a       *)
(* collection ID body such as 01JAN15000000 is one token (IdA, IdB), a     *)
(* modality code (P1BS, M1BS, A1BS) is one token, and "-" and "/" are      *)
(* tokens of their own.                                                    *)
(***************************************************************************)
EXTENDS Integers, Sequences, FiniteSets, TLC

VARIABLES
    \* ---- the file system and the clock
    dirs,                   \* existing directories (resolved paths)
    now,                    \* datetime.now().timestamp(), whole seconds
    \* ---- calls of create_working_dir on their own (SpecWD)
    wd_calls,               \* the last two calls, most recent last
    \* ---- one configuration and the runs of main against it
    config,                 \* the parsed ini file
    ntf_fpaths, info_fpaths, rpc_fpaths,   \* what os.walk found
    pc,                     \* position in main
    run,                    \* 1 for the first execution of main, 2 for the second
    working_dir,            \* what create_working_dir returned
    prefixes,               \* list(prefixes), in this process's set order
    idx,                    \* index of the running for loop
    collection_id_to_files, \* the catalog
    classified,             \* history: each record as classified, before any del
    incomplete_ids,
    error,                  \* "none", or the exception that ended this run
    calls,                  \* history: the stage invocations of this run
    written,                \* files present on disk, as the program spells them
    first_run,              \* history: the outputs targeted by the first run
    \* ---- the meshes of the working directory
    building_count,         \* number of building_<N>.obj written so far
    orig_meshes,            \* handed to texture_mapping
    obj_list                \* handed to buildings_to_dsm

wdVars   == <<wd_calls>>
mainVars == <<config, ntf_fpaths, info_fpaths, rpc_fpaths, pc, run, working_dir,
              prefixes, idx, collection_id_to_files, classified, incomplete_ids,
              error, calls, written, first_run>>
globVars == <<building_count, orig_meshes, obj_list>>
vars     == <<dirs, now, wdVars, mainVars, globVars>>

---------------------------------------------------------------------------
(* Bounds of the model. *)

\* The clock runs from 1 to MaxTime.
MaxTime == 2

\* Longest list of paths a walk returns when the three lists are drawn
\* independently (SpecCatalog).
MaxList == 2

\* Longest list of image paths in the runs of main (Spec).
MaxStems == 2

\* Most building_<N>.obj files roof_geon_extraction writes in one call.
MaxBuildings == 1

---------------------------------------------------------------------------
(* Strings. *)

\* Python's `needle in hay` and `hay.find(needle) >= 0`.
Contains(hay, needle) ==
    \E i \in 0..(Len(hay) - Len(needle)) :
        SubSeq(hay, i + 1, i + Len(needle)) = needle

\* The elements of a sequence.
Range(s) == {s[i] : i \in 1..Len(s)}

\* Index of the last "/" of a path, 0 if it has none.
LastSlash(p) ==
    LET at == {i \in 1..Len(p) : p[i] = "/"}
    IN  IF at = {} THEN 0 ELSE CHOOSE i \in at : \A j \in at : j <= i

Root == <<"/">>

\* The current directory of the process.
Cwd == <<"/", "c">>

\* os.path.realpath of a normalised, symlink-free path: a relative path is
\* joined to the current directory, the empty path is the current directory.
Realpath(p) ==
    IF p = <<>> THEN Cwd
    ELSE IF p[1] = "/" THEN p
    ELSE Cwd \o <<"/">> \o p

\* The directory a resolved path lies in.
Parent(p) ==
    IF LastSlash(p) <= 1 THEN Root ELSE SubSeq(p, 1, LastSlash(p) - 1)

\* os.path.join(dir, name).
Join(dir, name) == dir \o <<"/">> \o name

---------------------------------------------------------------------------
(* create_working_dir *)

\* str(datetime.datetime.now().timestamp()).split('.')[0]
DateStr(t) == <<ToString(t)>>

\* The name used when the configuration gives no work_dir.
DefaultWorkingDir(t) == <<"danesfield-">> \o DateStr(t)

\* A mutation of the test below: the operands of `in` exchanged.
InImageryDirSwapped(real_imagery, real_working) ==
    Contains(real_imagery, real_working)

\* The test of line 50: realpath(imagery_dir) in realpath(working_dir).
InImageryDir(real_imagery, real_working) ==
    Contains(real_working, real_imagery)

\* create_working_dir(working_dir, imagery_dir) run against the directories
\* `existing` at time t.  The result holds how the call ended ("ok", or the
\* exception raised), the value returned and the directories afterwards.
\* os.mkdir raises FileNotFoundError when the parent directory is missing;
\* the containment test runs after os.mkdir, so a call that raises ValueError
\* has already created the directory.
create_working_dir(hint, imagery_dir, existing, t) ==
    LET wd     == IF hint = <<>> THEN DefaultWorkingDir(t) ELSE hint
        real   == Realpath(wd)
        isdir  == real \in existing
        after  == existing \cup {real}
    IN  IF ~isdir /\ Parent(real) \notin existing
        THEN [outcome |-> "FileNotFoundError", ret |-> <<>>, dirs |-> existing]
        ELSE IF InImageryDir(Realpath(imagery_dir), real)
        THEN [outcome |-> "ValueError", ret |-> <<>>, dirs |-> after]
        ELSE [outcome |-> "ok", ret |-> wd, dirs |-> after]

---------------------------------------------------------------------------
(* Imagery paths and the catalog. *)

\* Two collection IDs: two digits, three capitals, eight digits.
IdA == "01JAN15000000"
IdB == "02FEB15000000"
CollectionIds == {IdA, IdB}

Modalities == {"pan", "msi", "swir"}

\* A dict with no key.
EmptyDict == [k \in {} |-> <<>>]

\* d[key] = value
DictSet(d, key, value) ==
    [k \in DOMAIN d \cup {key} |-> IF k = key THEN value ELSE d[k]]

\* The places where re.compile('[0-9]{2}[A-Z]{3}[0-9]{8}-') matches: an ID
\* body directly followed by a dash.
PrefixMatches(fpath) ==
    {i \in 1..(Len(fpath) - 1) : fpath[i] \in CollectionIds /\ fpath[i + 1] = "-"}

\* prefix_regex.search(ntf_fpath), then group(0).rstrip('-'): the ID body of
\* the leftmost match, "none" when the pattern matches nowhere.
SearchPrefix(fpath) ==
    IF PrefixMatches(fpath) = {} THEN "none"
    ELSE fpath[CHOOSE i \in PrefixMatches(fpath) : \A j \in PrefixMatches(fpath) : i <= j]

\* `prefix in fpath`, the prefix being an ID body without its dash.
HasPrefix(prefix, fpath) == \E i \in 1..Len(fpath) : fpath[i] = prefix

\* The modality branch of classify_fpaths taken for a path, "none" when the
\* path carries no modality code.
ModalityOf(fpath) ==
    IF Contains(fpath, <<"-", "P1BS", "-">>) THEN "pan"
    ELSE IF Contains(fpath, <<"-", "M1BS", "-">>) THEN "msi"
    ELSE IF Contains(fpath, <<"-", "A1BS", "-">>) THEN "swir"
    ELSE "none"

\* One iteration of the loop of classify_fpaths.
ClassifyOne(prefix, fpath, id_to_files, file_type) ==
    IF HasPrefix(prefix, fpath) /\ ModalityOf(fpath) # "none"
    THEN [id_to_files EXCEPT ![prefix][ModalityOf(fpath)] =
              DictSet(id_to_files[prefix][ModalityOf(fpath)], file_type, fpath)]
    ELSE id_to_files

\* classify_fpaths: the paths are taken in list order, a later one overwrites.
RECURSIVE classify_fpaths(_, _, _, _)
classify_fpaths(prefix, fpaths, id_to_files, file_type) ==
    IF fpaths = <<>> THEN id_to_files
    ELSE classify_fpaths(prefix, Tail(fpaths),
                         ClassifyOne(prefix, Head(fpaths), id_to_files, file_type),
                         file_type)

\* A mutation of ensure_complete_modality: require_rpc is ignored.
EnsureCompleteNoRpc(modality_dict, require_rpc) ==
    \A key \in {"image", "info"} : key \in DOMAIN modality_dict

\* ensure_complete_modality(modality_dict, require_rpc)
ensure_complete_modality(modality_dict, require_rpc) ==
    LET keys == {"image", "info"} \cup (IF require_rpc THEN {"rpc"} ELSE {})
    IN  \A key \in keys : key \in DOMAIN modality_dict

\* The record a prefix starts with (lines 169-174).
NewRecord == [pan |-> EmptyDict, msi |-> EmptyDict, swir |-> EmptyDict, angle |-> -1]

\* The test of lines 182-185.
IsComplete(files) ==
    /\ ensure_complete_modality(files.pan, TRUE)
    /\ ensure_complete_modality(files.msi, TRUE)

\* The prefixes found in the image paths (lines 157-162), as a set.
PrefixSet(fpaths) ==
    {SearchPrefix(fpaths[i]) : i \in 1..Len(fpaths)} \ {"none"}

\* The sequences that list every element of a set once: the orders list(set)
\* can produce.
Orderings(S) ==
    {s \in [1..Cardinality(S) -> S] : \A i, j \in 1..Cardinality(S) : s[i] = s[j] => i = j}

\* d with the key k deleted.
DictDel(d, k) == [x \in DOMAIN d \ {k} |-> d[x]]

---------------------------------------------------------------------------
(* The files the walks find.  os.walk keeps a path in ntf_fpaths when its   *)
(* name ends in .ntf, in info_fpaths when it ends in .tar, in rpc_fpaths    *)
(* when it starts with gra_ and ends in .rpc (lines 142-154).               *)

PanA  == <<IdA, "-", "P1BS", "-", "001">>            \* PAN of collection A
MsiA  == <<IdA, "-", "M1BS", "-", "001">>            \* MSI of collection A
PanAB == <<IdA, "-", IdB, "-", "P1BS", "-", "001">>  \* a name with both IDs, A first
MsiBA == <<IdB, "-", IdA, "-", "M1BS", "-", "001">>  \* a name with both IDs, B first
MsiA1 == <<IdA, "1", "-", "M1BS", "-", "001">>       \* A's digits in a longer number:
                                                     \* the pattern matches nowhere
SwirA == <<IdA, "-", "A1BS", "-", "001">>            \* SWIR of collection A

Ntf(stem) == <<"img", "/">> \o stem \o <<".ntf">>
Tar(stem) == <<"img", "/">> \o stem \o <<".tar">>
Rpc(stem) == <<"rpc", "/", "gra_">> \o stem \o <<".rpc">>

\* The image names of the runs of main.
Stems     == {PanA, MsiA, PanAB, MsiBA}

\* The paths the three lists of SpecCatalog are drawn from.
NtfFiles  == {Ntf(s) : s \in Stems \cup {MsiA1}}
TarFiles  == {Tar(s) : s \in {PanA, MsiA, MsiBA, MsiA1}}
RpcFiles  == {Rpc(s) : s \in {PanA, MsiA, SwirA}}

\* The lists of at most n distinct elements of S.
ListsOf(S, n) ==
    UNION {{s \in [1..k -> S] : \A i, j \in 1..k : s[i] = s[j] => i = j} : k \in 0..n}

\* s without its i-th element; s itself when i = 0.
Without(s, i) ==
    IF i = 0 THEN s ELSE SubSeq(s, 1, i - 1) \o SubSeq(s, i + 1, Len(s))

\* The image, archive and rpc paths of a list of names.
NtfList(stems) == [i \in 1..Len(stems) |-> Ntf(stems[i])]
TarList(stems) == [i \in 1..Len(stems) |-> Tar(stems[i])]
RpcList(stems) == [i \in 1..Len(stems) |-> Rpc(stems[i])]

ImageryDir == <<"/", "i">>
AoiName    == <<"aoi">>

---------------------------------------------------------------------------
(* main, lines 156-191: the prefixes and the catalog. *)

\* Lines 157-163: the unique prefixes of the image paths, in the order this
\* process's set yields them.  With no prefix the loop of line 168 has no
\* iteration.
ExtractPrefixes ==
    /\ pc = "prefixes"
    /\ \E order \in Orderings(PrefixSet(ntf_fpaths)) : prefixes' = order
    /\ collection_id_to_files' = EmptyDict
    /\ classified' = EmptyDict
    /\ incomplete_ids' = <<>>
    /\ idx' = 1
    /\ pc' = IF PrefixSet(ntf_fpaths) = {} THEN "generate_dsm" ELSE "catalog"
    /\ UNCHANGED <<dirs, now, wdVars, config, ntf_fpaths, info_fpaths, rpc_fpaths,
                   run, working_dir, error, calls, written, first_run, globVars>>

\* The catalog after the three classify_fpaths calls of lines 176-178 for a
\* prefix, starting from the catalog `catalog`.
Classified(prefix, catalog) ==
    LET c0 == DictSet(catalog, prefix, NewRecord)
        c1 == classify_fpaths(prefix, ntf_fpaths, c0, "image")
        c2 == classify_fpaths(prefix, rpc_fpaths, c1, "rpc")
        c3 == classify_fpaths(prefix, info_fpaths, c2, "info")
    IN  c3

\* One iteration of the loop of lines 168-191.
CatalogStep ==
    /\ pc = "catalog"
    /\ idx <= Len(prefixes)
    /\ LET prefix == prefixes[idx]
           cat    == Classified(prefix, collection_id_to_files)
       IN  /\ classified' = DictSet(classified, prefix, cat[prefix])
           /\ IF IsComplete(cat[prefix])
              THEN /\ collection_id_to_files' = cat
                   /\ UNCHANGED incomplete_ids
              ELSE /\ collection_id_to_files' = DictDel(cat, prefix)
                   /\ incomplete_ids' = Append(incomplete_ids, prefix)
    /\ idx' = IF idx = Len(prefixes) THEN 1 ELSE idx + 1
    /\ pc' = IF idx = Len(prefixes) THEN "generate_dsm" ELSE "catalog"
    /\ UNCHANGED <<dirs, now, wdVars, config, ntf_fpaths, info_fpaths, rpc_fpaths,
                   run, working_dir, prefixes, error, calls, written, first_run,
                   globVars>>

\* The collection IDs of the catalog in iteration order: a dict keeps its
\* keys in insertion order, and a del leaves the order of the others alone.
RECURSIVE KeptOrder(_, _)
KeptOrder(order, catalog) ==
    IF order = <<>> THEN <<>>
    ELSE IF Head(order) \in DOMAIN catalog
         THEN <<Head(order)>> \o KeptOrder(Tail(order), catalog)
         ELSE KeptOrder(Tail(order), catalog)

\* collection_id_to_files.items(), the keys only.
Items == KeptOrder(prefixes, collection_id_to_files)

---------------------------------------------------------------------------
(* SpecCatalog: the catalog built from three independent lists of paths. *)

InitCatalog ==
    /\ dirs = {Root, Cwd, ImageryDir, <<"/", "w">>}
    /\ now = 1
    /\ wd_calls = <<>>
    /\ config = [work_dir |-> <<"/", "w">>, imagery_dir |-> ImageryDir]
    /\ ntf_fpaths \in ListsOf(NtfFiles, MaxList)
    /\ info_fpaths \in ListsOf(TarFiles, MaxList)
    /\ rpc_fpaths \in ListsOf(RpcFiles, MaxList)
    /\ pc = "prefixes"
    /\ run = 1
    /\ working_dir = <<"/", "w">>
    /\ prefixes = <<>>
    /\ idx = 1
    /\ collection_id_to_files = EmptyDict
    /\ classified = EmptyDict
    /\ incomplete_ids = <<>>
    /\ error = "none"
    /\ calls = <<>>
    /\ written = {}
    /\ first_run = [working_dir |-> <<>>, targets |-> {}, written |-> {}]
    /\ building_count = 0
    /\ orig_meshes = {}
    /\ obj_list = {}

NextCatalog ==
    \/ ExtractPrefixes
    \/ CatalogStep

SpecCatalog == InitCatalog /\ [][NextCatalog]_vars

---------------------------------------------------------------------------
(* Properties of the catalog. *)

Roles == {"image", "info", "rpc"}

\* Every path the walks found.
Discovered == Range(ntf_fpaths) \cup Range(info_fpaths) \cup Range(rpc_fpaths)

\* The (collection ID, modality, role) triples of a catalog that hold a path.
TriplesOf(catalog, fpath) ==
    {t \in (DOMAIN catalog) \X Modalities \X Roles :
        /\ t[3] \in DOMAIN catalog[t[1]][t[2]]
        /\ catalog[t[1]][t[2]][t[3]] = fpath}

\* How often an ID occurs in incomplete_ids.
TimesIncomplete(id) ==
    Cardinality({i \in 1..Len(incomplete_ids) : incomplete_ids[i] = id})

\* C1: once the catalog is built, an ID extracted from the image paths is
\* in collection_id_to_files exactly when the pan map and the msi map of its
\* record both hold image, info and rpc (the swir map plays no part); a kept
\* record is the record as classified, and every other extracted ID is out
\* of the catalog and occurs exactly once in incomplete_ids.
C1_CompleteIffKept ==
    pc = "generate_dsm" =>
        \A id \in PrefixSet(ntf_fpaths) :
            LET full == /\ Roles \subseteq DOMAIN classified[id].pan
                        /\ Roles \subseteq DOMAIN classified[id].msi
            IN  /\ id \in DOMAIN collection_id_to_files <=> full
                /\ full => /\ collection_id_to_files[id] = classified[id]
                           /\ TimesIncomplete(id) = 0
                /\ ~full => TimesIncomplete(id) = 1

\* C1, its case: a collection with a PAN image and info archive but no PAN
\* rpc file has been dropped.
C1_Witness ==
    /\ pc = "generate_dsm"
    /\ IdA \in DOMAIN classified
    /\ DOMAIN classified[IdA].pan = {"image", "info"}
    /\ IdA \notin DOMAIN collection_id_to_files
    /\ incomplete_ids = <<IdA>>

\* C4: once the catalog is built, no discovered path is stored under two
\* different (collection ID, modality, role) triples.
C4_OneTriplePerPath ==
    pc = "generate_dsm" =>
        \A fpath \in Discovered :
            Cardinality(TriplesOf(collection_id_to_files, fpath)) <= 1

\* C5: once the catalog is built, a discovered path that the collection-ID
\* pattern matches nowhere is stored in no record.
C5_UnmatchedExcluded ==
    pc = "generate_dsm" =>
        \A fpath \in Discovered :
            PrefixMatches(fpath) = {} =>
                TriplesOf(collection_id_to_files, fpath) = {}

---------------------------------------------------------------------------
(* main, lines 109-124 and 193-417: the working directory and the stages. *)

\* The part of a path after its last "/": os.path.split(p)[1].
Basename(p) == SubSeq(p, LastSlash(p) + 1, Len(p))

\* The part of a path before its last "/".
Dirname(p) == SubSeq(p, 1, LastSlash(p) - 1)

Extensions == {".ntf", ".tar", ".rpc", ".obj", ".tif"}

\* os.path.splitext(name)[0]
Splitext(name) ==
    IF name # <<>> /\ name[Len(name)] \in Extensions
    THEN SubSeq(name, 1, Len(name) - 1) ELSE name

\* A mutation of DsmFile: the file name carries the time of the run.
DsmFileStamped(wd) == Join(wd, AoiName \o DateStr(now) \o <<"_P3D_DSM.tif">>)

\* The paths main builds under the working directory.
DsmFile(wd)          == Join(wd, AoiName \o <<"_P3D_DSM.tif">>)            \* line 197
DtmFile(wd)          == Join(wd, AoiName \o <<"_DTM.tif">>)                \* line 214
OrthoFile(wd, files) ==                                                   \* lines 229-231
    Join(wd, Splitext(Basename(files.msi.image)) \o <<"_ortho.tif">>)
NdviFile(wd)         == Join(wd, <<"ndvi.tif">>)                           \* line 250
RoadVectorFile(wd)   == Join(wd, <<"road_vector.geojson">>)                \* line 265
ThresholdFile(wd)    == Join(wd, <<"threshold_CLS.tif">>)                  \* line 278
RoadRasterFile(wd)   == Join(wd, <<"road_rasterized.tif">>)                \* line 286
RoadBridgeFile(wd)   == Join(wd, <<"road_rasterized_bridge.tif">>)         \* line 288
OutputDsm(wd)        == Join(wd, <<"buildings_to_dsm_DSM.tif">>)           \* line 373
OutputCls(wd)        == Join(wd, <<"buildings_to_dsm_CLS.tif">>)           \* line 387
OutputMtl(wd)        == Join(wd, AoiName \o <<"_MTL.tif">>)                \* line 404
MetricsDir(wd)       == Join(wd, <<"metrics">>)                            \* line 406

\* What the stages write without main naming the file.  roof_geon_extraction
\* writes building_<N>.obj, N from 0 (lines 321-322); crop_and_pansharpen
\* writes a file the glob of line 355 picks up.
BuildingFile(wd, n) == Join(wd, <<"building_", ToString(n), ".obj">>)
CropFile(wd, files) ==
    Join(wd, Splitext(Basename(files.pan.image)) \o <<"_crop_pansharpened_processed.tif">>)

OcclusionMesh == <<"xxxx", ".obj">>                                        \* line 354

\* glob.glob(os.path.join(wd, "*.obj")): the files directly in wd whose name
\* ends in .obj and does not start with a dot.
GlobObj(wd, files) ==
    {e \in files : /\ Dirname(e) = wd
                   /\ Basename(e) # <<>>
                   /\ e[Len(e)] = ".obj"
                   /\ Basename(e)[1] # "."}

\* The filter of lines 357-358 and 380-381, applied to the whole path.
MeshFilter(globbed) ==
    {e \in globbed : ~Contains(e, OcclusionMesh) /\ ~Contains(e, <<"building_">>)}

\* d.get(key, None), as the list of the arguments it contributes.
GetOpt(d, key) == IF key \in DOMAIN d THEN {d[key]} ELSE {}

\* A mutation of StageCall: an exception of the stage is swallowed and main
\* goes on with the next stage.
StageCallSwallowed(call, next) ==
    \/ /\ calls' = Append(calls, [call EXCEPT !.raised = FALSE])
       /\ written' = written \cup call.outputs \cup call.writes
       /\ pc' = next
       /\ error' = error
    \/ /\ calls' = Append(calls, [call EXCEPT !.raised = TRUE])
       /\ written' = written
       /\ pc' = next
       /\ error' = error

\* X.main(cmd_args): a synchronous call of a stage.  The stage either
\* returns, having written its files, or raises; main catches nothing, so an
\* exception ends the run.
StageCall(call, next) ==
    \/ /\ calls' = Append(calls, [call EXCEPT !.raised = FALSE])
       /\ written' = written \cup call.outputs \cup call.writes
       /\ pc' = next
       /\ error' = error
    \/ /\ calls' = Append(calls, [call EXCEPT !.raised = TRUE])
       /\ written' = written
       /\ pc' = "failed"
       /\ error' = "StageFailure"

\* An invocation: the stage, the collection it is for ("none" for a stage
\* of the whole run), the files it reads, the outputs main names for it, the
\* other files it writes, the meshes handed to it together with the names
\* the glob found, and whether it raised.
Call(stage, collection, inputs, outputs) ==
    [stage |-> stage, collection |-> collection, inputs |-> inputs,
     outputs |-> outputs, writes |-> {}, meshes |-> {}, listing |-> {},
     raised |-> FALSE]

\* Lines 123-124: the working directory.
CreateWorkingDir ==
    /\ pc = "start"
    /\ LET r == create_working_dir(config.work_dir, config.imagery_dir, dirs, now)
       IN  /\ dirs' = r.dirs
           /\ working_dir' = r.ret
           /\ error' = IF r.outcome = "ok" THEN "none" ELSE r.outcome
           /\ pc' = IF r.outcome = "ok" THEN "prefixes" ELSE "failed"
    /\ UNCHANGED <<now, wdVars, config, ntf_fpaths, info_fpaths, rpc_fpaths, run,
                   prefixes, idx, collection_id_to_files, classified,
                   incomplete_ids, calls, written, first_run, globVars>>

\* What a stage action leaves alone.
StageFrame ==
    UNCHANGED <<dirs, now, wdVars, config, ntf_fpaths, info_fpaths, rpc_fpaths, run,
                working_dir, prefixes, classified, incomplete_ids, first_run>>

\* The position after a loop over the catalog that starts at `body`.
LoopOr(body, after) == IF Items = <<>> THEN after ELSE body

\* A mutation of AfterFitDtm: the vegetation index is computed first and
\* the orthorectification loop is never entered.
AfterFitDtmNoOrtho == "compute_ndvi"

\* Where main goes after fit_dtm (lines 218-250).
AfterFitDtm == LoopOr("orthorectify", "compute_ndvi")

\* Lines 197-208.
GenerateDsm ==
    /\ pc = "generate_dsm"
    /\ StageCall(Call("generate_dsm", "none", {}, {DsmFile(working_dir)}), "fit_dtm")
    /\ UNCHANGED <<idx, collection_id_to_files, globVars>>
    /\ StageFrame

\* Lines 214-218.
FitDtm ==
    /\ pc = "fit_dtm"
    /\ StageCall(Call("fit_dtm", "none", {DsmFile(working_dir)}, {DtmFile(working_dir)}),
                 AfterFitDtm)
    /\ UNCHANGED <<idx, collection_id_to_files, globVars>>
    /\ StageFrame

\* One iteration of the loop of lines 227-239.
Orthorectify ==
    /\ pc = "orthorectify"
    /\ idx <= Len(Items)
    /\ LET collection_id == Items[idx]
           files == collection_id_to_files[collection_id]
           ortho == OrthoFile(working_dir, files)
       IN  /\ StageCall(Call("orthorectify", collection_id,
                             {files.msi.image, DsmFile(working_dir), DtmFile(working_dir)}
                                 \cup GetOpt(files.msi, "rpc"),
                             {ortho}),
                        IF idx = Len(Items) THEN "compute_ndvi" ELSE "orthorectify")
           /\ collection_id_to_files' =
                 IF pc' = "failed" THEN collection_id_to_files
                 ELSE [collection_id_to_files EXCEPT ![collection_id].msi =
                          DictSet(files.msi, "ortho_img_fpath", ortho)]
    /\ idx' = IF idx = Len(Items) THEN 1 ELSE idx + 1
    /\ UNCHANGED globVars
    /\ StageFrame

\* The ortho images of the catalog (lines 251-254, 301).
OrthoImages ==
    {collection_id_to_files[c].msi["ortho_img_fpath"] :
        c \in {c \in DOMAIN collection_id_to_files :
                  "ortho_img_fpath" \in DOMAIN collection_id_to_files[c].msi}}

\* Lines 250-258.
ComputeNdvi ==
    /\ pc = "compute_ndvi"
    /\ StageCall(Call("compute_ndvi", "none", OrthoImages, {NdviFile(working_dir)}),
                 "get_road_vector")
    /\ UNCHANGED <<idx, collection_id_to_files, globVars>>
    /\ StageFrame

\* Lines 265-270.
GetRoadVector ==
    /\ pc = "get_road_vector"
    /\ StageCall(Call("get_road_vector", "none", {DsmFile(working_dir)},
                      {RoadVectorFile(working_dir)}),
                 "segment_by_height")
    /\ UNCHANGED <<idx, collection_id_to_files, globVars>>
    /\ StageFrame

\* Lines 278-289.
SegmentByHeight ==
    /\ pc = "segment_by_height"
    /\ StageCall(Call("segment_by_height", "none",
                      {DsmFile(working_dir), DtmFile(working_dir), NdviFile(working_dir),
                       RoadVectorFile(working_dir)},
                      {ThresholdFile(working_dir), RoadRasterFile(working_dir),
                       RoadBridgeFile(working_dir)}),
                 "material_classifier")
    /\ UNCHANGED <<idx, collection_id_to_files, globVars>>
    /\ StageFrame

\* Lines 295-314.
MaterialClassifier ==
    /\ pc = "material_classifier"
    /\ StageCall(Call("material_classifier", "none",
                      {collection_id_to_files[c].msi["ortho_img_fpath"] : c \in Range(Items)}
                          \cup {collection_id_to_files[c].msi["info"] : c \in Range(Items)},
                      {OutputMtl(working_dir)}),
                 "roof_geon_extraction")
    /\ UNCHANGED <<idx, collection_id_to_files, globVars>>
    /\ StageFrame

\* Lines 324-335.  The stage writes one mesh per building it detects.
RoofGeonExtraction ==
    /\ pc = "roof_geon_extraction"
    /\ \E n \in 0..MaxBuildings :
          /\ StageCall([Call("roof_geon_extraction", "none",
                             {ThresholdFile(working_dir), DtmFile(working_dir)}, {})
                           EXCEPT !.writes = {BuildingFile(working_dir, k) : k \in 0..(n - 1)}],
                       LoopOr("crop_and_pansharpen", "texture_mapping"))
          /\ building_count' = IF pc' = "failed" THEN building_count ELSE n
    /\ UNCHANGED <<idx, collection_id_to_files, orig_meshes, obj_list>>
    /\ StageFrame

\* One iteration of the loop of lines 341-352.
CropAndPansharpen ==
    /\ pc = "crop_and_pansharpen"
    /\ idx <= Len(Items)
    /\ LET collection_id == Items[idx]
           files == collection_id_to_files[collection_id]
       IN  StageCall([Call("crop_and_pansharpen", collection_id,
                           {DsmFile(working_dir), files.pan.image, files.msi.image}
                               \cup GetOpt(files.pan, "rpc") \cup GetOpt(files.msi, "rpc"),
                           {})
                         EXCEPT !.writes = {CropFile(working_dir, files)}],
                     IF idx = Len(Items) THEN "texture_mapping" ELSE "crop_and_pansharpen")
    /\ idx' = IF idx = Len(Items) THEN 1 ELSE idx + 1
    /\ UNCHANGED <<collection_id_to_files, globVars>>
    /\ StageFrame

\* Lines 354-365.  Of the lists the globs return only the elements are
\* kept: their order is the directory's.
TextureMapping ==
    /\ pc = "texture_mapping"
    /\ LET images_to_use ==
               {e \in written : /\ Dirname(e) = working_dir
                                /\ e[Len(e)] = "_crop_pansharpened_processed.tif"}
           globbed == GlobObj(working_dir, written)
           meshes  == MeshFilter(globbed)
       IN  /\ orig_meshes' = meshes
           /\ StageCall([Call("texture_mapping", "none",
                              {DsmFile(working_dir), DtmFile(working_dir)}
                                  \cup images_to_use \cup meshes,
                              {})
                            EXCEPT !.meshes = meshes, !.listing = globbed],
                        "buildings_to_dsm")
    /\ UNCHANGED <<idx, collection_id_to_files, building_count, obj_list>>
    /\ StageFrame

\* Lines 373-384: the elevation raster.
BuildingsToDsm ==
    /\ pc = "buildings_to_dsm"
    /\ LET globbed == GlobObj(working_dir, written)
           meshes  == MeshFilter(globbed)
       IN  /\ obj_list' = meshes
           /\ StageCall([Call("buildings_to_dsm", "none",
                              {DtmFile(working_dir)} \cup meshes,
                              {OutputDsm(working_dir)})
                            EXCEPT !.meshes = meshes, !.listing = globbed],
                        "buildings_to_cls")
    /\ UNCHANGED <<idx, collection_id_to_files, building_count, orig_meshes>>
    /\ StageFrame

\* Lines 387-396: the classification raster, from the obj_list of line 380.
BuildingsToCls ==
    /\ pc = "buildings_to_cls"
    /\ StageCall([Call("buildings_to_dsm", "none",
                       {DtmFile(working_dir)} \cup obj_list,
                       {OutputCls(working_dir)})
                     EXCEPT !.meshes = obj_list,
                            !.listing = GlobObj(working_dir, written)],
                 "run_metrics")
    /\ UNCHANGED <<idx, collection_id_to_files, globVars>>
    /\ StageFrame

\* Lines 404-417.
RunMetrics ==
    /\ pc = "run_metrics"
    /\ StageCall(Call("run_metrics", "none",
                      {OutputDsm(working_dir), OutputCls(working_dir),
                       OutputMtl(working_dir), DtmFile(working_dir)},
                      {MetricsDir(working_dir)}),
                 "done")
    /\ UNCHANGED <<idx, collection_id_to_files, globVars>>
    /\ StageFrame

\* The output paths main named in the invocations of this run.
Targets == UNION {calls[i].outputs : i \in 1..Len(calls)}

\* The script is run again with the same ini file, against the file system
\* the first run left, within the same second or later (of the later
\* seconds the last one of the clock stands for all).
RunAgain ==
    /\ pc = "done"
    /\ run = 1
    /\ run' = 2
    /\ \E t \in {now, MaxTime} : now' = t
    /\ first_run' = [working_dir |-> working_dir, targets |-> Targets,
                     written |-> written]
    /\ pc' = "start"
    /\ working_dir' = <<>>
    /\ prefixes' = <<>>
    /\ idx' = 1
    /\ collection_id_to_files' = EmptyDict
    /\ classified' = EmptyDict
    /\ incomplete_ids' = <<>>
    /\ error' = "none"
    /\ calls' = <<>>
    /\ building_count' = 0
    /\ orig_meshes' = {}
    /\ obj_list' = {}
    /\ UNCHANGED <<dirs, wdVars, config, ntf_fpaths, info_fpaths, rpc_fpaths, written>>

---------------------------------------------------------------------------
(* Spec: runs of main. *)

WorkDir == <<"/", "w">>

\* The work_dir of the ini file: absent, outside the imagery directory,
\* inside it.
WorkDirHints == {<<>>, WorkDir, Join(ImageryDir, <<"w">>)}

\* Meshes a working directory that exists before the first run holds.
OldMeshes == {Join(WorkDir, <<"roof", ".obj">>), Join(WorkDir, OcclusionMesh)}

\* The image names, and which of the info archives or rpc files of those
\* names is missing, if any.
Droppable(stems) == {<<"none", 0>>} \cup ({"info", "rpc"} \X (1..Len(stems)))

Init ==
    /\ now = 1
    /\ wd_calls = <<>>
    /\ \E hint \in WorkDirHints, old \in BOOLEAN :
          /\ old => hint = WorkDir
          /\ config = [work_dir |-> hint, imagery_dir |-> ImageryDir]
          /\ dirs = {Root, Cwd, ImageryDir} \cup (IF old THEN {WorkDir} ELSE {})
          /\ written = IF old THEN OldMeshes ELSE {}
    /\ \E stems \in ListsOf(Stems, MaxStems) :
          \E drop \in Droppable(stems) :
             /\ ntf_fpaths = NtfList(stems)
             /\ info_fpaths =
                   TarList(Without(stems, IF drop[1] = "info" THEN drop[2] ELSE 0))
             /\ rpc_fpaths =
                   RpcList(Without(stems, IF drop[1] = "rpc" THEN drop[2] ELSE 0))
    /\ pc = "start"
    /\ run = 1
    /\ working_dir = <<>>
    /\ prefixes = <<>>
    /\ idx = 1
    /\ collection_id_to_files = EmptyDict
    /\ classified = EmptyDict
    /\ incomplete_ids = <<>>
    /\ error = "none"
    /\ calls = <<>>
    /\ first_run = [working_dir |-> <<>>, targets |-> {}, written |-> {}]
    /\ building_count = 0
    /\ orig_meshes = {}
    /\ obj_list = {}

Next ==
    \/ CreateWorkingDir
    \/ ExtractPrefixes
    \/ CatalogStep
    \/ GenerateDsm
    \/ FitDtm
    \/ Orthorectify
    \/ ComputeNdvi
    \/ GetRoadVector
    \/ SegmentByHeight
    \/ MaterialClassifier
    \/ RoofGeonExtraction
    \/ CropAndPansharpen
    \/ TextureMapping
    \/ BuildingsToDsm
    \/ BuildingsToCls
    \/ RunMetrics
    \/ RunAgain

Spec == Init /\ [][Next]_vars

---------------------------------------------------------------------------
(* Properties of the runs of main. *)

\* Whether a record holds a path under some modality and role.
StoredIn(files, fpath) ==
    \E m \in Modalities : \E r \in Roles :
        r \in DOMAIN files[m] /\ files[m][r] = fpath

\* The stages that receive files of the collections.
CollectionStages ==
    {"orthorectify", "compute_ndvi", "material_classifier", "crop_and_pansharpen"}

\* C6: no orthorectify, compute_ndvi, material_classifier or
\* crop_and_pansharpen invocation is made for a collection of incomplete_ids
\* or receives a file that was classified into the record of such a
\* collection, or the ortho image derived from its MSI image.
C6_DroppedExcluded ==
    \A i \in 1..Len(calls) :
        calls[i].stage \in CollectionStages =>
            \A id \in Range(incomplete_ids) :
                /\ calls[i].collection # id
                /\ \A f \in calls[i].inputs :
                      /\ ~StoredIn(classified[id], f)
                      /\ "image" \in DOMAIN classified[id].msi =>
                             f # OrthoFile(working_dir, classified[id])

\* n copies of x.
Repeat(x, n) == [i \in 1..n |-> x]

\* The order of the stages in a run with n complete collections.
StageOrder(n) ==
    <<"generate_dsm", "fit_dtm">> \o Repeat("orthorectify", n)
        \o <<"compute_ndvi", "get_road_vector", "segment_by_height",
             "material_classifier", "roof_geon_extraction">>
        \o Repeat("crop_and_pansharpen", n)
        \o <<"texture_mapping", "buildings_to_dsm", "buildings_to_dsm", "run_metrics">>

StageNames == [i \in 1..Len(calls) |-> calls[i].stage]

IsPrefix(a, b) == Len(a) <= Len(b) /\ SubSeq(b, 1, Len(a)) = a

\* The positions of the invocations of a stage.
CallsOf(stage) == {i \in 1..Len(calls) : calls[i].stage = stage}

\* C7: the invocations made so far are an initial part of the fixed order
\* (orthorectify and crop_and_pansharpen once per complete collection, each
\* collection once, the elevation rendering before the classification
\* rendering), a finished run has made all of them, every invocation but the
\* last has returned, and every file of the working directory that an
\* invocation reads, the globbed meshes aside, was written by an earlier
\* invocation of the run.
C7_FixedOrder ==
    LET n == Cardinality(DOMAIN collection_id_to_files)
    IN  /\ IsPrefix(StageNames, StageOrder(n))
        /\ pc = "done" => StageNames = StageOrder(n)
        /\ \A i \in 1..(Len(calls) - 1) : ~calls[i].raised
        /\ \A stage \in {"orthorectify", "crop_and_pansharpen"} :
              /\ \A i, j \in CallsOf(stage) :
                    calls[i].collection = calls[j].collection => i = j
              /\ \A i \in CallsOf(stage) :
                    calls[i].collection \in DOMAIN collection_id_to_files
        /\ \A i, j \in CallsOf("buildings_to_dsm") :
              i < j => /\ calls[i].outputs = {OutputDsm(working_dir)}
                       /\ calls[j].outputs = {OutputCls(working_dir)}
        /\ \A k \in 1..Len(calls) :
              \A f \in calls[k].inputs \ calls[k].meshes :
                  Dirname(f) = working_dir =>
                      \E j \in 1..(k - 1) : f \in calls[j].outputs \cup calls[j].writes

\* C7, its case: a run with two complete collections has finished.
C7_Witness ==
    /\ pc = "done"
    /\ Cardinality(DOMAIN collection_id_to_files) = 2
    /\ Len(calls) = 15

\* C8, the state part: an invocation that raised is the last one of the
\* run, and the run has failed; a run whose working directory was refused
\* has invoked no stage; a finished run saw no exception.
C8_FailureIsLast ==
    /\ \A i \in 1..Len(calls) :
          calls[i].raised => i = Len(calls) /\ pc = "failed" /\ error = "StageFailure"
    /\ error # "none" => pc = "failed"
    /\ error \in {"ValueError", "FileNotFoundError"} => calls = <<>>
    /\ pc = "done" => error = "none"

\* C8: a raised exception ends the run.  The failed invocation stays the
\* last one, and a failed run takes no further step: no later stage, no
\* retry, no success.
C8_AbortOnFailure == []C8_FailureIsLast /\ [][pc # "failed"]_vars

\* C8, its case: segment_by_height raised after four stages returned.
C8_Witness ==
    /\ pc = "failed"
    /\ Len(calls) = 5
    /\ calls[5].stage = "segment_by_height"
    /\ calls[5].raised

\* The fixed-name outputs of a run.
FixedOutputs(wd) ==
    {DsmFile(wd), DtmFile(wd), NdviFile(wd), ThresholdFile(wd), OutputDsm(wd),
     OutputCls(wd)}

\* The meshes roof_geon_extraction writes, one per detected building.
IsBuildingFile(e) == Len(Basename(e)) = 3 /\ Basename(e)[1] = "building_"

\* C9: a second run that finishes in the working directory of the first
\* names the same set of output paths as the first; the fixed-name outputs
\* are among them and on disk, and, the per-building meshes aside, the files
\* on disk are those the first run left.
C9_SameOutputs ==
    (pc = "done" /\ run = 2 /\ working_dir = first_run.working_dir) =>
        /\ Targets = first_run.targets
        /\ FixedOutputs(working_dir) \subseteq Targets
        /\ FixedOutputs(working_dir) \subseteq written
        /\ {e \in written : ~IsBuildingFile(e)} =
               {e \in first_run.written : ~IsBuildingFile(e)}

\* C9, its case: the second run finished later than the first, in the same
\* working directory, with a complete collection.
C9_Witness ==
    /\ pc = "done"
    /\ run = 2
    /\ now > 1
    /\ working_dir = first_run.working_dir
    /\ collection_id_to_files # EmptyDict

---------------------------------------------------------------------------
(* SpecWD: create_working_dir called on its own, over and over, against a  *)
(* file system that keeps what earlier calls created.                      *)

\* The values the other specifications' variables rest at.
Idle ==
    /\ config = [work_dir |-> <<>>, imagery_dir |-> <<>>]
    /\ ntf_fpaths = <<>>
    /\ info_fpaths = <<>>
    /\ rpc_fpaths = <<>>
    /\ run = 1
    /\ prefixes = <<>>
    /\ idx = 1
    /\ collection_id_to_files = EmptyDict
    /\ classified = EmptyDict
    /\ incomplete_ids = <<>>
    /\ error = "none"
    /\ calls = <<>>
    /\ first_run = [working_dir |-> <<>>, targets |-> {}, written |-> {}]
    /\ building_count = 0
    /\ orig_meshes = {}
    /\ obj_list = {}

DirA   == <<"/", "a">>
DirAB  == <<"/", "a", "/", "b">>
DirAb  == <<"/", "a", "b">>            \* /ab, a sibling of /a
DirB   == <<"/", "b">>
DirBA  == <<"/", "b", "/", "a">>

\* Values of imagery_dir: a directory, and the current directory.
WDImagery == {DirA, Cwd}

\* Values of work_dir: absent, absolute, relative.
WDHints == {<<>>, DirAB, DirAb, DirBA, <<"w">>}

\* The directories that may exist before the first call.
WDInitialDirs == {{Root, Cwd} \cup S : S \in SUBSET {DirA, DirB}}

InitWD ==
    /\ dirs \in WDInitialDirs
    /\ now = 1
    /\ wd_calls = <<>>
    /\ pc = "idle"
    /\ working_dir = <<>>
    /\ written = {}
    /\ Idle

\* What is kept of a call of create_working_dir(hint, imagery_dir) made
\* against the directories `existing` at time t.
WDRecord(hint, imagery_dir, existing, t) ==
    LET r == create_working_dir(hint, imagery_dir, existing, t)
    IN  [hint |-> hint, imagery_dir |-> imagery_dir,
         real_wd |-> Realpath(IF hint = <<>> THEN DefaultWorkingDir(t) ELSE hint),
         real_imagery |-> Realpath(imagery_dir),
         outcome |-> r.outcome, ret |-> r.ret,
         before |-> existing, after |-> r.dirs]

\* A call of create_working_dir with fresh arguments.
WDCall ==
    /\ \E hint \in WDHints, imagery_dir \in WDImagery :
          LET c == WDRecord(hint, imagery_dir, dirs, now)
          IN  /\ dirs' = c.after
              /\ wd_calls' = <<c>>
    /\ UNCHANGED <<now, mainVars, globVars>>

\* A second call with the arguments of the call before it.
WDCallAgain ==
    /\ Len(wd_calls) = 1
    /\ LET c == WDRecord(wd_calls[1].hint, wd_calls[1].imagery_dir, dirs, now)
       IN  /\ dirs' = c.after
           /\ wd_calls' = <<wd_calls[1], c>>
    /\ UNCHANGED <<now, mainVars, globVars>>

\* A second passes.
WDTick ==
    /\ now < MaxTime
    /\ now' = now + 1
    /\ UNCHANGED <<dirs, wdVars, mainVars, globVars>>

NextWD ==
    \/ WDCall
    \/ WDCallAgain
    \/ WDTick

SpecWD == InitWD /\ [][NextWD]_vars

\* Whether the resolved path w is the directory i or lies below it.
Nested(w, i) ==
    \/ i = Root
    \/ w = i
    \/ /\ Len(w) > Len(i)
       /\ SubSeq(w, 1, Len(i)) = i
       /\ w[Len(i) + 1] = "/"

\* C2: a call whose resolved working directory lies within the resolved
\* imagery directory does not return: it raises ValueError, unless os.mkdir
\* has raised before the test because the parent directory is missing.
C2_NestedRaises ==
    \A i \in 1..Len(wd_calls) :
        LET c == wd_calls[i]
        IN  Nested(c.real_wd, c.real_imagery) =>
                /\ c.outcome \in {"ValueError", "FileNotFoundError"}
                /\ c.outcome = "FileNotFoundError" =>
                       c.real_wd \notin c.before /\ Parent(c.real_wd) \notin c.before
                /\ c.ret = <<>>

\* C2, its case: no work_dir was given, the name was made from the time, and
\* the call raised ValueError because the current directory is the imagery
\* directory.
C2_Witness ==
    /\ wd_calls # <<>>
    /\ wd_calls[Len(wd_calls)].hint = <<>>
    /\ wd_calls[Len(wd_calls)].real_wd = Join(Cwd, DefaultWorkingDir(now))
    /\ wd_calls[Len(wd_calls)].outcome = "ValueError"

\* C3: a call whose resolved working directory is not nested under the
\* resolved imagery directory, and whose parent directory exists, returns
\* the working directory, which exists afterwards; a second call with the
\* same arguments after such a call returns the same directory and creates
\* nothing.
C3_OutsideSucceeds ==
    /\ \A i \in 1..Len(wd_calls) :
          LET c == wd_calls[i]
          IN  (~Nested(c.real_wd, c.real_imagery) /\ Parent(c.real_wd) \in c.before) =>
                  /\ c.outcome = "ok"
                  /\ Realpath(c.ret) = c.real_wd
                  /\ c.real_wd \in c.after
    /\ Len(wd_calls) = 2 =>
          LET c == wd_calls[1]
              d == wd_calls[2]
          IN  (/\ c.hint = d.hint
               /\ c.imagery_dir = d.imagery_dir
               /\ c.outcome = "ok"
               /\ c.hint # <<>>
               /\ ~Nested(c.real_wd, c.real_imagery)) =>
                  /\ d.outcome = "ok"
                  /\ d.ret = c.ret
                  /\ d.after = d.before

---------------------------------------------------------------------------
(* SpecGlob: the end of main, from roof_geon_extraction on, in working      *)
(* directories that hold meshes already.                                   *)

\* A working directory whose name contains the text building_.
BuildingDir == <<"/", "building_", "w">>

GlobDirs == {WorkDir, BuildingDir}

\* Names found in the working directory before the run: two original
\* meshes, the occlusion mesh, a per-building mesh of an earlier run, and a
\* file that is no mesh.
GlobNames ==
    {<<"roof", ".obj">>, <<"wall", ".obj">>, OcclusionMesh,
     <<"building_", "0", ".obj">>, <<"roof", ".tif">>}

InitGlob ==
    /\ now = 1
    /\ wd_calls = <<>>
    /\ pc = "roof_geon_extraction"
    /\ working_dir \in GlobDirs
    /\ dirs = {Root, Cwd, working_dir}
    /\ \E names \in SUBSET GlobNames : written = {Join(working_dir, n) : n \in names}
    /\ Idle

NextGlob ==
    \/ RoofGeonExtraction
    \/ TextureMapping
    \/ BuildingsToDsm
    \/ BuildingsToCls
    \/ RunMetrics

SpecGlob == InitGlob /\ [][NextGlob]_vars

Digits == {"0", "1", "2", "3", "4", "5", "6", "7", "8", "9"}

\* building_<N>.obj, N a number (one digit here).
IsBuildingName(name) ==
    Len(name) = 3 /\ name[1] = "building_" /\ name[2] \in Digits /\ name[3] = ".obj"

\* C10: the meshes handed to texture_mapping and to both buildings_to_dsm
\* invocations are exactly the .obj files directly in the working directory
\* that are neither xxxx.obj nor a building_<N>.obj.
C10_OriginalMeshes ==
    \A i \in 1..Len(calls) :
        calls[i].stage \in {"texture_mapping", "buildings_to_dsm"} =>
            calls[i].meshes =
                {e \in calls[i].listing :
                    Basename(e) # OcclusionMesh /\ ~IsBuildingName(Basename(e))}

=============================================================================
